---- MODULE Spec2Model ----
(***************************************************************************)
(* Model of the color proxy: the Redis-backed route registry               *)
(* (internal/backend/redis.go), the simple selection strategy and the gin  *)
(* dispatch middleware (color.go).                                         *)
(*                                                                         *)
(* A Go string is a sequence of chunks: a chunk is either a piece of valid *)
(* UTF-8 text, the invalid byte xFF, or the replacement rune uFFFD.  The   *)
(* empty string is << >>.  Time is a discrete clock.                       *)
(***************************************************************************)
EXTENDS Integers, Sequences, FiniteSets, TLC

VARIABLES
    clock,   \* time.Now() of the proxy process
    TTL,     \* Config.TTL, fixed at construction
    skew,    \* how far the store applies a key's expiry after the proxy's clock reading
    store,   \* the Redis keyspace: key -> [val: JSON document, exp: expiry time]
    hb,      \* the Heartbeat call in flight (between its Get and its Register)
    sweep,   \* the DeleteExpired call in flight (between its List and its Deletes)
    ret,     \* the call that completed in the last step, and what it returned
    tr,      \* the transports: their pools, the handles made, the relays in flight
    sd,      \* the proxy's lifecycle: its context, background tasks and Shutdown call
    px       \* the construction: the options given to New and what New returned

vars == <<clock, TTL, skew, store, hb, sweep, ret, tr, sd, px>>

-----------------------------------------------------------------------------
\* Bounds of the model.
MaxClock == 2

\* The configurations: a TTL of 0 (go-redis then sets no expiry on the key), and a
\* positive TTL with the store applying the expiry at once or one tick late.
Configs == { [TTL |-> 0, skew |-> 0], [TTL |-> 1, skew |-> 0], [TTL |-> 1, skew |-> 1] }

-----------------------------------------------------------------------------
\* Strings.
xFF == "0xFF"
uFFFD == "U+FFFD"

redisKeyPrefix == <<"colorproxy:route:">>

Colors == {<<"blue">>, <<"green">>}

Addresses == {<<"http://a:1">>, <<"http://b:2/api">>}

Tokens == {<<"t1">>, <<"t", xFF>>}

\* The (address, owner, token) triples callers register.
Creds ==
    { [Address |-> <<"http://a:1">>, Owner |-> <<"alice">>, Token |-> <<"t1">>],
      [Address |-> <<"http://b:2/api">>, Owner |-> <<"bob">>, Token |-> <<"t", xFF>>] }

\* Errors, by their message.
Nil == "nil"
ErrNotFound == "route not found"
ErrMismatch == "address or token mismatch"
ErrStore == "redis: connection refused"

NoExpiry == -1

NoRoute == [Color |-> << >>, Address |-> << >>, Owner |-> << >>, Token |-> << >>,
            ExpiresAt |-> 0]

Route(color, cred) ==
    [Color |-> color, Address |-> cred.Address, Owner |-> cred.Owner,
     Token |-> cred.Token, ExpiresAt |-> 0]

-----------------------------------------------------------------------------
\* encoding/json.

\* A string value is encoded coerced to valid UTF-8: every invalid byte
\* becomes the replacement rune.
ToValidUTF8(s) == [i \in 1..Len(s) |-> IF s[i] = xFF THEN uFFFD ELSE s[i]]

Marshal(route) ==
    [Color |-> ToValidUTF8(route.Color),
     Address |-> ToValidUTF8(route.Address),
     Owner |-> ToValidUTF8(route.Owner),
     Token |-> ToValidUTF8(route.Token),
     ExpiresAt |-> route.ExpiresAt]

Unmarshal(data) ==
    [Color |-> data.Color, Address |-> data.Address, Owner |-> data.Owner,
     Token |-> data.Token, ExpiresAt |-> data.ExpiresAt]

-----------------------------------------------------------------------------
\* The Redis commands the backend issues.

\* SET key data [EX expiration]: go-redis sends an expiry only when expiration > 0.
RedisSet(s, key, data, expiration) ==
    [k \in DOMAIN s \cup {key} |->
        IF k = key
        THEN [val |-> data,
              exp |-> IF expiration > 0 THEN clock + skew + expiration ELSE NoExpiry]
        ELSE s[k]]

RedisDel(s, key) == [k \in DOMAIN s \ {key} |-> s[k]]

\* The keys Redis still holds at time now: a key is dropped once its expiry has passed.
RedisExpire(s, now) ==
    [k \in {x \in DOMAIN s : s[x].exp = NoExpiry \/ now <= s[x].exp} |-> s[k]]

-----------------------------------------------------------------------------
\* RedisBackend.  ok is whether the Redis command of the call succeeds.

Key(color) == redisKeyPrefix \o color

\* The comparison the other way round.
ExpiredReversed(route, now) == route.ExpiresAt > now

\* now.After(route.ExpiresAt)
Expired(route, now) == now > route.ExpiresAt

\* Register that keeps the ExpiresAt the route came with.
RegisterKeepsExpiresAt(s, route, ttl, ok) ==
    IF ok
    THEN [err |-> Nil, store |-> RedisSet(s, Key(route.Color), Marshal(route), ttl),
          route |-> route]
    ELSE [err |-> ErrStore, store |-> s, route |-> route]

\* Register that refuses to overwrite a route stored with another token.
RegisterChecksToken(s, route, ttl, ok) ==
    LET stamped == [route EXCEPT !.ExpiresAt = clock + ttl]
        key == Key(route.Color)
    IN  IF ~ok THEN [err |-> ErrStore, store |-> s, route |-> stamped]
        ELSE IF key \in DOMAIN s /\ s[key].val.Token # Marshal(route).Token
        THEN [err |-> ErrMismatch, store |-> s, route |-> stamped]
        ELSE [err |-> Nil, store |-> RedisSet(s, key, Marshal(stamped), ttl),
              route |-> stamped]

Register(s, route, ttl, ok) ==
    LET stamped == [route EXCEPT !.ExpiresAt = clock + ttl]
    IN  IF ok
        THEN [err |-> Nil, store |-> RedisSet(s, Key(route.Color), Marshal(stamped), ttl),
              route |-> stamped]
        ELSE [err |-> ErrStore, store |-> s, route |-> stamped]

\* Get that reports an expired route as not found.
GetHidesExpired(s, color, ok) ==
    IF ~ok THEN [err |-> ErrStore, route |-> NoRoute]
    ELSE IF Key(color) \notin DOMAIN s THEN [err |-> ErrNotFound, route |-> NoRoute]
    ELSE IF Expired(Unmarshal(s[Key(color)].val), clock)
         THEN [err |-> ErrNotFound, route |-> NoRoute]
    ELSE [err |-> Nil, route |-> Unmarshal(s[Key(color)].val)]

Get(s, color, ok) ==
    IF ~ok THEN [err |-> ErrStore, route |-> NoRoute]
    ELSE IF Key(color) \notin DOMAIN s THEN [err |-> ErrNotFound, route |-> NoRoute]
    ELSE [err |-> Nil, route |-> Unmarshal(s[Key(color)].val)]

\* Heartbeat comparing the address alone.
HeartbeatCheckAddressOnly(s, color, address, token, ok) ==
    LET g == Get(s, color, ok)
    IN  IF g.err # Nil THEN [err |-> g.err, route |-> NoRoute]
        ELSE IF g.route.Address # address
             THEN [err |-> ErrMismatch, route |-> NoRoute]
             ELSE [err |-> Nil, route |-> g.route]

\* Heartbeat that registers the caller's route when none is stored.
HeartbeatCheckUpsert(s, color, address, token, ok) ==
    LET g == Get(s, color, ok)
    IN  IF g.err = ErrNotFound
        THEN [err |-> Nil,
              route |-> [Color |-> color, Address |-> address, Owner |-> << >>,
                         Token |-> token, ExpiresAt |-> 0]]
        ELSE IF g.err # Nil THEN [err |-> g.err, route |-> NoRoute]
        ELSE IF g.route.Address # address \/ g.route.Token # token
             THEN [err |-> ErrMismatch, route |-> NoRoute]
             ELSE [err |-> Nil, route |-> g.route]

\* The first half of Heartbeat: Get, then the address/token comparison.
HeartbeatCheck(s, color, address, token, ok) ==
    LET g == Get(s, color, ok)
    IN  IF g.err # Nil THEN [err |-> g.err, route |-> NoRoute]
        ELSE IF g.route.Address # address \/ g.route.Token # token
             THEN [err |-> ErrMismatch, route |-> NoRoute]
             ELSE [err |-> Nil, route |-> g.route]

\* Delete that reports a missing key as an error.
DeleteMissingIsError(s, color, ok) ==
    IF ~ok THEN [err |-> ErrStore, store |-> s]
    ELSE IF Key(color) \notin DOMAIN s THEN [err |-> ErrNotFound, store |-> s]
    ELSE [err |-> Nil, store |-> RedisDel(s, Key(color))]

Delete(s, color, ok) ==
    IF ok THEN [err |-> Nil, store |-> RedisDel(s, Key(color))]
    ELSE [err |-> ErrStore, store |-> s]

\* Proxy.ginHandleDeleteRoute: Delete, answered 500 on an error and 200 otherwise.
ginHandleDeleteRoute(s, color, ok) ==
    LET d == Delete(s, color, ok)
    IN  [err |-> d.err, store |-> d.store,
         resp |-> IF d.err # Nil THEN [status |-> 500, body |-> d.err]
                  ELSE [status |-> 200, body |-> "deleted"]]

\* Heartbeat as one call: the check, then Register of the route read.
Heartbeat(s, color, address, token, ttl, okGet, okSet) ==
    LET h == HeartbeatCheck(s, color, address, token, okGet)
    IN  IF h.err # Nil THEN [err |-> h.err, store |-> s, calls |-> 1]
        ELSE LET r == Register(s, h.route, ttl, okSet)
             IN  [err |-> r.err, store |-> r.store, calls |-> 2]

\* The bodies POSTed to the administrative endpoints: a body that is not JSON, or
\* an object whose fields may be empty or left out (either way the zero value).
Malformed ==
    [json |-> "invalid", Color |-> << >>, Address |-> << >>, Owner |-> << >>,
     Token |-> << >>]
Bodies ==
    {Malformed} \cup
    [json : {"object"}, Color : {<<"blue">>, << >>}, Address : {<<"http://a:1">>, << >>},
     Owner : {<<"alice">>, << >>}, Token : {<<"t1">>, << >>}]

\* c.ShouldBindJSON with binding:"required" on color, address and token.
ShouldBindJSON(body) ==
    IF body = Malformed THEN "invalid character"
    ELSE IF body.Color = << >> \/ body.Address = << >> \/ body.Token = << >>
         THEN "field validation failed on the required tag"
         ELSE Nil

\* ginHandleRegister that binds without the required tags.
ginHandleRegisterUnvalidated(s, body, ttl, ok) ==
    IF body = Malformed
    THEN [err |-> "invalid character", store |-> s, calls |-> 0,
          resp |-> [status |-> 400, body |-> "invalid character"]]
    ELSE LET r == Register(s, Route(body.Color, body), ttl, ok)
         IN  [err |-> r.err, store |-> r.store, calls |-> 1,
              resp |-> IF r.err # Nil THEN [status |-> 500, body |-> r.err]
                       ELSE [status |-> 200, body |-> "registered"]]

\* Proxy.ginHandleRegister
ginHandleRegister(s, body, ttl, ok) ==
    IF ShouldBindJSON(body) # Nil
    THEN [err |-> ShouldBindJSON(body), store |-> s, calls |-> 0,
          resp |-> [status |-> 400, body |-> ShouldBindJSON(body)]]
    ELSE LET r == Register(s, Route(body.Color, body), ttl, ok)
         IN  [err |-> r.err, store |-> r.store, calls |-> 1,
              resp |-> IF r.err # Nil THEN [status |-> 500, body |-> r.err]
                       ELSE [status |-> 200, body |-> "registered"]]

\* Proxy.ginHandleHeartbeat
ginHandleHeartbeat(s, body, ttl, okGet, okSet) ==
    IF ShouldBindJSON(body) # Nil
    THEN [err |-> ShouldBindJSON(body), store |-> s, calls |-> 0,
          resp |-> [status |-> 400, body |-> ShouldBindJSON(body)]]
    ELSE LET h == Heartbeat(s, body.Color, body.Address, body.Token, ttl, okGet, okSet)
         IN  [err |-> h.err, store |-> h.store, calls |-> h.calls,
              resp |-> IF h.err # Nil THEN [status |-> 500, body |-> h.err]
                       ELSE [status |-> 200, body |-> "heartbeat ok"]]

\* The orders in which KEYS may enumerate a set of keys.
KeyOrders(keys) ==
    {f \in [1..Cardinality(keys) -> keys] : \A k \in keys : \E i \in DOMAIN f : f[i] = k}

\* List: keys is what KEYS returned, failing the keys whose GET fails (skipped).
List(s, keys, failing) ==
    LET kept == SelectSeq(keys, LAMBDA k : k \in DOMAIN s /\ k \notin failing)
    IN  [i \in 1..Len(kept) |-> Unmarshal(s[kept[i]].val)]

\* DeleteExpired, after List: the colors it goes on to delete, in list order.
ExpiredColors(routes, now) ==
    LET old == SelectSeq(routes, LAMBDA r : Expired(r, now))
    IN  [i \in 1..Len(old) |-> old[i].Color]

-----------------------------------------------------------------------------
\* DeleteExpired as one call.  keys is what KEYS returned (ok: whether it
\* answered), skipped the keys whose GET fails in List, lost the keys whose DEL
\* fails; every route listed with now after its ExpiresAt is deleted by the Color
\* it was decoded with.
DeleteExpired(s, keys, skipped, lost, now, ok) ==
    IF ~ok THEN [err |-> ErrStore, store |-> s]
    ELSE LET todo == ExpiredColors(List(s, keys, skipped), now)
             gone == {Key(todo[i]) : i \in DOMAIN todo} \ lost
         IN  [err |-> Nil, store |-> [k \in DOMAIN s \ gone |-> s[k]]]

\* The colors registered where the sweep runs alone.
SweepColors == {<<"b", xFF>>, <<"b", uFFFD>>}

\* SimpleStrategy.Select
\* Select that leaves out a route whose ExpiresAt has passed.
SelectSkipsExpired(s, color, ok) ==
    LET g == GetHidesExpired(s, color, ok)
    IN  IF g.err # Nil THEN [err |-> g.err, target |-> << >>, gets |-> 1]
        ELSE [err |-> Nil, target |-> g.route.Address, gets |-> 1]

\* One Get; its error, or the Address of the route it returned.
Select(s, color, ok) ==
    LET g == Get(s, color, ok)
    IN  IF g.err # Nil THEN [err |-> g.err, target |-> << >>, gets |-> 1]
        ELSE [err |-> Nil, target |-> g.route.Address, gets |-> 1]

\* HTTPTransport.Proxy: up is whether the backend at target answers.
HandlerResponse == [status |-> 200, body |-> "handler"]

\* A Proxy without the ErrorHandler's 502: a failed relay leaves an empty 200.
ProxySilentOnError(target, up) ==
    IF up THEN [err |-> Nil, status |-> 200, body |-> "backend"]
    ELSE [err |-> Nil, status |-> 200, body |-> ""]

Proxy(target, up) ==
    IF up THEN [err |-> Nil, status |-> 200, body |-> "backend"]
    ELSE [err |-> Nil, status |-> 502, body |-> "proxy error"]

\* The middleware without the test for an empty header.
MiddlewareNoHeaderCheck(s, header, ok, up) ==
    LET sel == Select(s, header, ok)
    IN  IF sel.err # Nil
        THEN [next |-> TRUE, selects |-> 1, proxies |-> 0, err |-> sel.err,
              gets |-> sel.gets, target |-> << >>,
              resp |-> HandlerResponse]
        ELSE LET p == Proxy(sel.target, up)
             IN  [next |-> FALSE, selects |-> 1, proxies |-> 1, err |-> Nil,
                  gets |-> sel.gets, target |-> sel.target,
                  resp |-> [status |-> p.status, body |-> p.body]]

\* The middleware answering 502 when Select fails.
MiddlewareBadGatewayOnMiss(s, header, ok, up) ==
    IF header = << >>
    THEN [next |-> TRUE, selects |-> 0, proxies |-> 0, err |-> Nil,
          gets |-> 0, target |-> << >>,
          resp |-> HandlerResponse]
    ELSE LET sel == Select(s, header, ok)
         IN  IF sel.err # Nil
             THEN [next |-> FALSE, selects |-> 1, proxies |-> 0, err |-> sel.err,
                   gets |-> sel.gets, target |-> << >>,
                   resp |-> [status |-> 502, body |-> "proxy failed"]]
             ELSE LET p == Proxy(sel.target, up)
                  IN  [next |-> FALSE, selects |-> 1, proxies |-> 1, err |-> Nil,
                       gets |-> sel.gets, target |-> sel.target,
                       resp |-> [status |-> p.status, body |-> p.body]]

\* The middleware relaying a second time when the first relay fails.
MiddlewareRetries(s, header, ok, up) ==
    IF header = << >>
    THEN [next |-> TRUE, selects |-> 0, proxies |-> 0, err |-> Nil,
          gets |-> 0, target |-> << >>,
          resp |-> HandlerResponse]
    ELSE LET sel == Select(s, header, ok)
         IN  IF sel.err # Nil
             THEN [next |-> TRUE, selects |-> 1, proxies |-> 0, err |-> sel.err,
                   gets |-> sel.gets, target |-> << >>,
                   resp |-> HandlerResponse]
             ELSE LET p == Proxy(sel.target, up)
                  IN  [next |-> FALSE, selects |-> 1,
                       proxies |-> IF p.status = 502 THEN 2 ELSE 1, err |-> Nil,
                       gets |-> sel.gets, target |-> sel.target,
                       resp |-> [status |-> p.status, body |-> p.body]]

\* Proxy.ginProxyMiddleware: the response, and the calls it made.
Middleware(s, header, ok, up) ==
    IF header = << >>
    THEN [next |-> TRUE, selects |-> 0, proxies |-> 0, err |-> Nil,
          gets |-> 0, target |-> << >>,
          resp |-> HandlerResponse]
    ELSE LET sel == Select(s, header, ok)
         IN  IF sel.err # Nil
             THEN [next |-> TRUE, selects |-> 1, proxies |-> 0, err |-> sel.err,
                   gets |-> sel.gets, target |-> << >>,
                   resp |-> HandlerResponse]
             ELSE LET p == Proxy(sel.target, up)
                  IN  IF p.err # Nil
                      THEN [next |-> FALSE, selects |-> 1, proxies |-> 1, err |-> Nil,
                            gets |-> sel.gets, target |-> sel.target,
                            resp |-> [status |-> 502, body |-> "proxy failed"]]
                      ELSE [next |-> FALSE, selects |-> 1, proxies |-> 1, err |-> Nil,
                            gets |-> sel.gets, target |-> sel.target,
                            resp |-> [status |-> p.status, body |-> p.body]]

-----------------------------------------------------------------------------
\* The record of the last completed call.  prior is the token stored under the
\* call's key before the call (the empty string when the key was absent).
PriorToken(s, color) ==
    IF Key(color) \in DOMAIN s THEN s[Key(color)].val.Token ELSE << >>

NoRet ==
    [op |-> "init", color |-> << >>, err |-> Nil, swallowed |-> Nil, route |-> NoRoute,
     prior |-> << >>, routes |-> << >>, done |-> TRUE,
     next |-> FALSE, selects |-> 0, proxies |-> 0, resp |-> HandlerResponse,
     up |-> TRUE, calls |-> 0, failed |-> {}, gets |-> 0, target |-> << >>,
     body |-> [json |-> "none", Color |-> << >>, Address |-> << >>, Owner |-> << >>,
               Token |-> << >>]]

Idle == [pc |-> "idle", route |-> NoRoute, todo |-> << >>]

\* A caller (ginHandleRegister, registerSelf) registers a route.
CallRegister(color, cred) ==
    \E ok \in BOOLEAN :
        LET r == Register(store, Route(color, cred), TTL, ok)
        IN  /\ store' = r.store
            /\ ret' = [NoRet EXCEPT !.op = "Register", !.color = color, !.err = r.err,
                                    !.route = r.route,
                                    !.prior = PriorToken(store, color)]
            /\ UNCHANGED <<px, tr, sd, clock, TTL, skew, hb, sweep>>

CallGet(color) ==
    \E ok \in BOOLEAN :
        LET g == Get(store, color, ok)
        IN  /\ ret' = [NoRet EXCEPT !.op = "Get", !.color = color, !.err = g.err,
                                    !.route = g.route]
            /\ UNCHANGED <<px, tr, sd, clock, TTL, skew, store, hb, sweep>>

\* Heartbeat up to its comparison: it returns an error, or goes on to Register.
HeartbeatGet(color, address, token) ==
    /\ hb.pc = "idle"
    /\ \E ok \in BOOLEAN :
        LET h == HeartbeatCheck(store, color, address, token, ok)
        IN  /\ hb' = IF h.err = Nil THEN [Idle EXCEPT !.pc = "register", !.route = h.route]
                     ELSE Idle
            /\ ret' = [NoRet EXCEPT !.op = "Heartbeat.Get", !.color = color,
                                    !.err = h.err, !.done = (h.err # Nil)]
            /\ UNCHANGED <<px, tr, sd, clock, TTL, skew, store, sweep>>

\* Heartbeat's Register of the route it read.
HeartbeatRegister ==
    /\ hb.pc = "register"
    /\ \E ok \in BOOLEAN :
        LET r == Register(store, hb.route, TTL, ok)
        IN  /\ store' = r.store
            /\ hb' = Idle
            /\ ret' = [NoRet EXCEPT !.op = "Heartbeat.Register", !.color = hb.route.Color,
                                    !.err = r.err, !.route = r.route]
            /\ UNCHANGED <<px, tr, sd, clock, TTL, skew, sweep>>

CallList ==
    \E keys \in KeyOrders(DOMAIN store) : \E failing \in SUBSET (DOMAIN store) :
        /\ ret' = [NoRet EXCEPT !.op = "List", !.routes = List(store, keys, failing)]
        /\ UNCHANGED <<px, tr, sd, clock, TTL, skew, store, hb, sweep>>

CallDelete(color) ==
    \E ok \in BOOLEAN :
        LET d == ginHandleDeleteRoute(store, color, ok)
        IN  /\ store' = d.store
            /\ ret' = [NoRet EXCEPT !.op = "Delete", !.color = color, !.err = d.err,
                                    !.resp = d.resp,
                                    !.prior = PriorToken(store, color)]
            /\ UNCHANGED <<px, tr, sd, clock, TTL, skew, hb, sweep>>

\* DeleteExpired up to the loop: the routes listed and the clock read decide what
\* the loop deletes.  keys is what KEYS returned, failing the keys whose GET fails.
DeleteExpiredList(keys, failing) ==
    /\ sweep.pc = "idle"
    /\ LET todo == ExpiredColors(List(store, keys, failing), clock)
       IN  /\ sweep' = IF todo = << >> THEN Idle
                       ELSE [Idle EXCEPT !.pc = "delete", !.todo = todo]
           /\ ret' = [NoRet EXCEPT !.op = "DeleteExpired.List", !.done = (todo = << >>)]
           /\ UNCHANGED <<px, tr, sd, clock, TTL, skew, store, hb>>

\* DeleteExpired when KEYS fails: List's error is returned.
DeleteExpiredListFails ==
    /\ sweep.pc = "idle"
    /\ ret' = [NoRet EXCEPT !.op = "DeleteExpired.List", !.err = ErrStore]
    /\ UNCHANGED <<px, tr, sd, clock, TTL, skew, store, hb, sweep>>

\* One iteration of DeleteExpired's loop; the Delete's error is dropped.
DeleteExpiredDelete ==
    /\ sweep.pc = "delete"
    /\ \E ok \in BOOLEAN :
        LET d == Delete(store, Head(sweep.todo), ok)
            rest == Tail(sweep.todo)
        IN  /\ store' = d.store
            /\ sweep' = IF rest = << >> THEN Idle ELSE [sweep EXCEPT !.todo = rest]
            /\ ret' = [NoRet EXCEPT !.op = "DeleteExpired.Delete",
                                    !.color = Head(sweep.todo), !.swallowed = d.err,
                                    !.prior = PriorToken(store, Head(sweep.todo)),
                                    !.done = (rest = << >>)]
            /\ UNCHANGED <<px, tr, sd, clock, TTL, skew, hb>>

\* DeleteExpired, from its List to its last Delete with nothing in between (the
\* order in which KEYS answers then makes no difference to what is deleted).
CallDeleteExpired ==
    \E skipped \in SUBSET (DOMAIN store) : \E lost \in SUBSET (DOMAIN store \ skipped) :
      \E ok \in BOOLEAN :
        LET keys == CHOOSE order \in KeyOrders(DOMAIN store) : TRUE
            d == DeleteExpired(store, keys, skipped, lost, clock, ok)
        IN  /\ store' = d.store
            /\ ret' = [NoRet EXCEPT !.op = "DeleteExpired", !.err = d.err,
                                    !.failed = IF ok THEN skipped \cup lost ELSE {},
                                    !.done = ok]
            /\ UNCHANGED <<px, tr, sd, clock, TTL, skew, hb, sweep>>

\* An inbound request through the middleware.
ginProxyMiddleware(header) ==
    \E ok \in BOOLEAN : \E up \in BOOLEAN :
        LET m == Middleware(store, header, ok, up)
        IN  /\ ret' = [NoRet EXCEPT !.op = "ginProxyMiddleware", !.color = header,
                                    !.err = m.err, !.next = m.next, !.selects = m.selects,
                                    !.proxies = m.proxies, !.resp = m.resp,
                                    !.gets = m.gets, !.target = m.target,
                                    !.up = (m.proxies = 0 \/ up)]
            /\ UNCHANGED <<px, tr, sd, clock, TTL, skew, store, hb, sweep>>

\* Time passes; Redis drops the keys whose expiry has passed.
Tick ==
    /\ clock < MaxClock
    /\ clock' = clock + 1
    /\ store' = RedisExpire(store, clock + 1)
    /\ ret' = [NoRet EXCEPT !.op = "Tick"]
    /\ UNCHANGED <<px, tr, sd, TTL, skew, hb, sweep>>

-----------------------------------------------------------------------------
\* The forwarders.  A URL path is a sequence of pieces: the slash "/" or a piece of
\* text without a slash.

\* singleJoiningSlash (the same function in both versions of the HTTP transport).
singleJoiningSlash(a, b) ==
    LET aslash == Len(a) > 0 /\ a[Len(a)] = "/"
        bslash == Len(b) > 0 /\ b[1] = "/"
    IN  IF aslash /\ bslash THEN a \o Tail(b)
        ELSE IF ~aslash /\ ~bslash THEN a \o <<"/">> \o b
        ELSE a \o b

\* The Director that httputil.NewSingleHostReverseProxy installs: it joins the
\* target's path and the request's path.
origDirector(targetPath, path) == singleJoiningSlash(targetPath, path)

\* The Director of HTTPTransport.Proxy (internal/transport/http.go): the path the
\* request had on arrival is joined to the target's path.
Director(targetPath, origPath) ==
    LET joined == origDirector(targetPath, origPath)
    IN  singleJoiningSlash(targetPath, origPath)

\* The Director of the HTTPTransport that caches a ReverseProxy per target: the
\* path origDirector left in the request is joined to the target's path.
CachedDirector(targetPath, path) ==
    LET joined == origDirector(targetPath, path)
    IN  singleJoiningSlash(targetPath, joined)

\* The target base paths and inbound request paths relayed.
BasePaths ==
    { << >>, <<"/">>, <<"/", "api">>, <<"/", "api", "/">>, <<"/", "api", "/", "/">>,
      <<"/", "api", "/", "v1">> }

InboundPaths ==
    { <<"/">>, <<"/", "users">>, <<"/", "users", "/">>, <<"/", "/", "users">>,
      <<"/", "api", "/", "users">>, <<"/", "users", "/", "7">>, <<"/", "v1">>,
      <<"/", "/">> }

NoPath == <<"none">>

\* The pooled transports.  kind is "grpc" (GRPCTransport and its connPool) or "http"
\* (the HTTPTransport with a proxyCache).  A handle is a number; pool maps a target
\* to [id: the handle, 0 when none, idle: minutes since lastUse].
Targets == {"a:1", "b:2"}
Relays == {1, 2}
MaxHandles == 3
IdleThreshold == 5

NoHandle == [id |-> 0, idle |-> 0]
RelayIdle == [pc |-> "idle", target |-> "", conn |-> 0, afterClose |-> FALSE]
NoVictim == [target |-> "", id |-> 0]

NewTransports ==
    [kind |-> "grpc",
     pool |-> [t \in Targets |-> NoHandle],
     made |-> 0,
     closed |-> {},
     done |-> FALSE,
     relay |-> [r \in Relays |-> RelayIdle],
     victim |-> NoVictim,
     impl |-> "http.go", targetPath |-> NoPath, inbound |-> NoPath, upstream |-> NoPath]

Dialing(t) == Cardinality({r \in Relays : t.relay[r].pc = "dial"})

\* getOrCreateConn / getOrCreateProxy up to the pool's Load: a hit refreshes lastUse
\* and returns the handle, a miss goes on to make one.
PoolLoad(t, r, target) ==
    IF t.pool[target].id # 0
    THEN [t EXCEPT !.pool[target].idle = 0,
                   !.relay[r] = [pc |-> "use", target |-> target,
                                 conn |-> t.pool[target].id, afterClose |-> t.done]]
    ELSE [t EXCEPT !.relay[r] = [pc |-> "dial", target |-> target, conn |-> 0,
                                 afterClose |-> t.done]]

\* getOrCreateConn / getOrCreateProxy after a miss: the handle is made (grpc: dialed,
\* which can fail) and stored under the target, whatever is stored there by now.
PoolStore(t, r, ok) ==
    LET target == t.relay[r].target
    IN  IF ~ok THEN [t EXCEPT !.relay[r] = RelayIdle]
        ELSE [t EXCEPT !.made = t.made + 1,
                       !.pool[target] = [id |-> t.made + 1, idle |-> 0],
                       !.relay[r].pc = "use", !.relay[r].conn = t.made + 1]

\* The relay itself on the handle obtained: conn.Invoke (an error on a closed
\* connection or a failing backend) or proxy.ServeHTTP.
PoolUse(t, r, up) ==
    [err |-> IF t.kind = "grpc" /\ (t.relay[r].conn \in t.closed \/ ~up)
             THEN "rpc call failed" ELSE Nil,
     tr |-> [t EXCEPT !.relay[r] = RelayIdle]]

\* cleanupIdleConnections, one entry of its Range: the idle time read.
SweepVictim(t, target) ==
    IF t.pool[target].id # 0 /\ t.pool[target].idle > IdleThreshold
    THEN [target |-> target, id |-> t.pool[target].id]
    ELSE NoVictim

\* cleanupIdleConnections, the entry found idle: its connection closed, and the
\* target's key deleted from the pool.
SweepEvict(t) ==
    [t EXCEPT !.closed = t.closed \cup {t.victim.id},
              !.pool[t.victim.target] = NoHandle,
              !.victim = NoVictim]

\* Close: GRPCTransport.Close closes done, stops the ticker, closes every pooled
\* connection and empties the pool; HTTPTransport.Close empties the cache.
TransportClose(t) ==
    IF t.kind = "grpc"
    THEN IF t.done THEN t
         ELSE [t EXCEPT !.done = TRUE,
                        !.closed = t.closed \cup
                                   {t.pool[x].id : x \in {y \in Targets : t.pool[y].id # 0}},
                        !.pool = [x \in Targets |-> NoHandle]]
    ELSE [t EXCEPT !.done = TRUE, !.pool = [x \in Targets |-> NoHandle]]

\* A minute passes: every pooled handle is a minute longer unused.
Older(t) ==
    [t EXCEPT !.pool = [x \in Targets |->
        IF t.pool[x].id # 0 /\ t.pool[x].idle <= IdleThreshold
        THEN [t.pool[x] EXCEPT !.idle = @ + 1] ELSE t.pool[x]]]

-----------------------------------------------------------------------------
\* The proxy's lifecycle (color.go): New, the two background tasks, Shutdown.

ErrCanceled == "context canceled"
ErrDeadline == "context deadline exceeded"
ErrClose == "close failed"

\* The route the proxy registers for itself (WithAutoRegister).
SelfColor == <<"blue">>
SelfCred == [Address |-> <<"http://a:1">>, Owner |-> <<"alice">>, Token |-> <<"t1">>]

\* Ticker periods counted after the cancellation.
MaxPeriods == 2

\* Shutdown calls made on one proxy.
MaxShutdowns == 2

\* Before Shutdown: the context live, the tasks in their select.  ticker says
\* whether a task's ticker channel holds a tick, since counts the periods of a
\* task's ticker that ended after p.cancel().  call is where the Shutdown call
\* stands, waiter the goroutine it starts on wg.Wait, closes the Close calls it has
\* made, in order.
Constructed(auto) ==
    [auto |-> auto,
     ctx |-> "live",
     task |-> [sweep |-> "select", heartbeat |-> IF auto THEN "select" ELSE "none"],
     ticker |-> [sweep |-> FALSE, heartbeat |-> FALSE],
     since |-> [sweep |-> 0, heartbeat |-> 0],
     again |-> 0,
     call |-> "none",
     waiter |-> "none",
     deadline |-> FALSE,
     deleteErr |-> Nil,
     transportErr |-> Nil,
     closes |-> << >>,
     result |-> "none"]

NotConstructed == Constructed(FALSE)

\* No proxy: New has not returned one.
NoProxy ==
    [Constructed(FALSE) EXCEPT !.ctx = "nil", !.call = "nil",
                               !.task = [sweep |-> "none", heartbeat |-> "none"]]

ErrBackendRequired == "backend is required"

\* The options New can be given: whether a Backend, a Transport and a Strategy are
\* set, and whether WithAutoRegister is used.
Options ==
    [Backend : BOOLEAN, Transport : {"none", "custom"}, Strategy : {"none", "custom"},
     AutoRegister : BOOLEAN]

NotCalled(o) ==
    [state |-> "options", opts |-> o, err |-> "none", transport |-> "none",
     strategy |-> "none"]

\* New that goes on without a Backend.
NewWithoutCheck(o, s, ttl, ok) ==
    [px |-> [state |-> "returned", opts |-> o, err |-> Nil,
             transport |-> IF o.Transport = "none" THEN "HTTPTransport" ELSE o.Transport,
             strategy |-> IF o.Strategy = "none" THEN "SimpleStrategy" ELSE o.Strategy],
     sd |-> Constructed(o.AutoRegister),
     store |-> IF o.AutoRegister THEN Register(s, Route(SelfColor, SelfCred), ttl, ok).store
               ELSE s]

\* New: the Backend is required; Transport and Strategy get their defaults; the
\* background tasks are started and the self route is registered (a failure of
\* that Register is logged).
New(o, s, ttl, ok) ==
    IF ~o.Backend
    THEN [px |-> [NotCalled(o) EXCEPT !.state = "returned", !.err = ErrBackendRequired],
          sd |-> NoProxy,
          store |-> s]
    ELSE [px |-> [state |-> "returned", opts |-> o, err |-> Nil,
                  transport |-> IF o.Transport = "none" THEN "HTTPTransport"
                                ELSE o.Transport,
                  strategy |-> IF o.Strategy = "none" THEN "SimpleStrategy"
                               ELSE o.Strategy],
          sd |-> Constructed(o.AutoRegister),
          store |-> IF o.AutoRegister
                    THEN Register(s, Route(SelfColor, SelfCred), ttl, ok).store
                    ELSE s]

\* What New returned for the proxies of the other specifications: a Redis backend
\* and the default Transport and Strategy.
Built(auto) ==
    New([Backend |-> TRUE, Transport |-> "none", Strategy |-> "none",
         AutoRegister |-> auto], << >>, 0, TRUE).px

\* A task's loop giving up after a tick that failed.
AfterTickStopsOnError(err) == IF err # Nil THEN "exited" ELSE "select"

\* A task's loop after a tick: the error is logged and the loop selects again.
AfterTick(err) == "select"

\* A period of task k's ticker ends: the channel (of capacity one) holds a tick.
TickerPeriod(d, k) ==
    [d EXCEPT !.ticker[k] = TRUE,
              !.since[k] = IF d.ctx = "cancelled" /\ @ < MaxPeriods THEN @ + 1 ELSE @]

TasksExited(d) == \A k \in DOMAIN d.task : d.task[k] \in {"exited", "none"}

\* Shutdown: p.cancel().
ShutdownCancel(d) ==
    [d EXCEPT !.ctx = "cancelled",
              !.call = IF d.auto /\ SelfColor # << >> THEN "delete" ELSE "wait",
              !.waiter = IF d.auto /\ SelfColor # << >> THEN "none" ELSE "waiting"]

\* Shutdown (or Close, which calls it) called once more on a proxy whose Shutdown
\* has returned: the same steps from the top, with the new caller's context.
ShutdownAgain(d) ==
    [ShutdownCancel(d) EXCEPT !.again = @ + 1, !.deadline = FALSE, !.result = "none",
                              !.deleteErr = Nil, !.transportErr = Nil]

\* Shutdown returning when the self route cannot be deleted.
ShutdownDeleteSelfFatal(d, err) ==
    IF err # Nil
    THEN [d EXCEPT !.deleteErr = err, !.call = "returned", !.result = err]
    ELSE [d EXCEPT !.deleteErr = err, !.call = "wait", !.waiter = "waiting"]

\* Shutdown after p.backend.Delete of the self route: its error is logged, and the
\* goroutine waiting on the WaitGroup is started.
ShutdownDeleteSelf(d, err) ==
    [d EXCEPT !.deleteErr = err, !.call = "wait", !.waiter = "waiting"]

\* Shutdown's select with a deadline that ends the waiting goroutine and the tasks.
ShutdownSelectKillsTasks(d, case) ==
    IF case = "ctx.Done"
    THEN [d EXCEPT !.call = "returned", !.result = ErrDeadline, !.waiter = "done",
                   !.task = [k \in DOMAIN d.task |->
                                IF d.task[k] = "none" THEN "none" ELSE "exited"]]
    ELSE [d EXCEPT !.call = "closeTransport"]

\* Shutdown's select: the caller's context is done, or the tasks have finished.
ShutdownSelect(d, case) ==
    IF case = "ctx.Done"
    THEN [d EXCEPT !.call = "returned", !.result = ErrDeadline]
    ELSE [d EXCEPT !.call = "closeTransport"]

\* Shutdown closing the transport: an error is logged.
ShutdownCloseTransport(d, err) ==
    [d EXCEPT !.transportErr = err, !.closes = Append(d.closes, "transport"),
              !.call = "closeBackend"]

\* Shutdown closing the backend: an error is returned.
ShutdownCloseBackend(d, err) ==
    [d EXCEPT !.closes = Append(d.closes, "backend"), !.call = "returned",
              !.result = err]

\* The state New returns in: the tasks started, and the self route registered when
\* auto-registration is on and the Register succeeded.
InitLifecycle ==
    /\ clock = 0
    /\ \E cfg \in Configs : TTL = cfg.TTL /\ skew = cfg.skew
    /\ hb = Idle
    /\ sweep = Idle
    /\ ret = NoRet
    /\ tr = NewTransports
    /\ \E auto \in BOOLEAN : \E ok \in BOOLEAN :
        /\ sd = Constructed(auto)
        /\ px = Built(auto)
        /\ store = IF auto THEN Register(<< >>, Route(SelfColor, SelfCred), TTL, ok).store
                   ELSE << >>

\* A period of a running task's ticker ends.  A task that waits in its select with
\* the context cancelled is taken to leave the select before the period ends.
TickerFires(k) ==
    /\ sd.task[k] \in {"select", "tick"}
    /\ ~(sd.ctx = "cancelled" /\ sd.task[k] = "select")
    /\ sd' = TickerPeriod(sd, k)
    /\ ret' = [NoRet EXCEPT !.op = "ticker"]
    /\ UNCHANGED <<px, clock, TTL, skew, store, hb, sweep, tr>>

\* The sweep task's select takes the ticker: DeleteExpired starts.  With the
\* context cancelled by now its List fails at once and the loop selects again.
SweepTaskTick ==
    /\ sd.task.sweep = "select"
    /\ sd.ticker.sweep
    /\ sd' = [sd EXCEPT !.ticker.sweep = FALSE,
                        !.task.sweep = IF sd.ctx = "cancelled" THEN AfterTick(ErrCanceled)
                                       ELSE "tick"]
    /\ ret' = [NoRet EXCEPT !.op = "sweep.tick",
                            !.err = IF sd.ctx = "cancelled" THEN ErrCanceled ELSE Nil]
    /\ UNCHANGED <<px, clock, TTL, skew, store, hb, sweep, tr>>

\* DeleteExpired of the sweep task returns: its List failed (as it does with the
\* context cancelled), or the routes listed as expired are deleted (each Delete
\* may fail, unnoticed).
SweepTaskDone ==
    /\ sd.task.sweep = "tick"
    /\ \E keys \in KeyOrders(DOMAIN store) : \E lost \in SUBSET Colors : \E ok \in BOOLEAN :
        LET todo == ExpiredColors(List(store, keys, {}), clock)
            gone == {Key(todo[i]) : i \in DOMAIN todo} \ {Key(c) : c \in lost}
            err == IF sd.ctx = "cancelled" THEN ErrCanceled
                   ELSE IF ok THEN Nil ELSE ErrStore
        IN  /\ store' = IF err # Nil THEN store
                        ELSE [k \in DOMAIN store \ gone |-> store[k]]
            /\ ret' = [NoRet EXCEPT !.op = "sweep.done", !.err = err]
            /\ sd' = [sd EXCEPT !.task.sweep = AfterTick(err)]
    /\ UNCHANGED <<px, clock, TTL, skew, hb, sweep, tr>>

\* The heartbeat task's select takes the ticker: heartbeatSelf, up to the
\* comparison in Heartbeat.  With the context cancelled the Get fails.
SelfHeartbeatGet ==
    /\ sd.task.heartbeat = "select"
    /\ sd.ticker.heartbeat
    /\ \E ok \in BOOLEAN :
        LET h == HeartbeatCheck(store, SelfColor, SelfCred.Address, SelfCred.Token,
                                ok /\ sd.ctx = "live")
        IN  /\ hb' = IF h.err = Nil THEN [Idle EXCEPT !.pc = "register", !.route = h.route]
                     ELSE Idle
            /\ sd' = [sd EXCEPT !.ticker.heartbeat = FALSE,
                                !.task.heartbeat = IF h.err = Nil THEN "tick"
                                                   ELSE AfterTick(h.err)]
            /\ ret' = [NoRet EXCEPT !.op = "heartbeatSelf.Get", !.color = SelfColor,
                          !.err = IF sd.ctx = "cancelled" THEN ErrCanceled ELSE h.err]
    /\ UNCHANGED <<px, clock, TTL, skew, store, sweep, tr>>

\* Heartbeat's Register, the SET issued: the client refuses it when the context is
\* cancelled by now, and sends it otherwise.
SelfHeartbeatSend ==
    /\ sd.task.heartbeat = "tick"
    /\ hb.pc = "register"
    /\ \E ok \in BOOLEAN :
        /\ hb' = IF ok /\ sd.ctx = "live" THEN [hb EXCEPT !.pc = "sent"] ELSE Idle
        /\ sd' = IF ok /\ sd.ctx = "live" THEN sd
                 ELSE [sd EXCEPT !.task.heartbeat = AfterTick(ErrStore)]
        /\ ret' = [NoRet EXCEPT !.op = "heartbeatSelf.Send", !.color = SelfColor,
                      !.err = IF sd.ctx = "cancelled" THEN ErrCanceled
                              ELSE IF ok THEN Nil ELSE ErrStore]
    /\ UNCHANGED <<px, clock, TTL, skew, store, sweep, tr>>

\* Heartbeat's Register, the SET sent reaching Redis.
SelfHeartbeatApply ==
    /\ sd.task.heartbeat = "tick"
    /\ hb.pc = "sent"
    /\ LET r == Register(store, hb.route, TTL, TRUE)
       IN  /\ store' = r.store
           /\ ret' = [NoRet EXCEPT !.op = "heartbeatSelf.Register", !.color = SelfColor,
                                   !.route = r.route]
    /\ hb' = Idle
    /\ sd' = [sd EXCEPT !.task.heartbeat = AfterTick(Nil)]
    /\ UNCHANGED <<px, clock, TTL, skew, sweep, tr>>

\* POST /colorproxy/register
PostRegister(body) ==
    \E ok \in BOOLEAN :
        LET h == ginHandleRegister(store, body, TTL, ok)
        IN  /\ store' = h.store
            /\ ret' = [NoRet EXCEPT !.op = "ginHandleRegister", !.err = h.err,
                                    !.resp = h.resp, !.calls = h.calls, !.body = body]
            /\ UNCHANGED <<px, tr, sd, clock, TTL, skew, hb, sweep>>

\* POST /colorproxy/heartbeat
PostHeartbeat(body) ==
    \E okGet \in BOOLEAN : \E okSet \in BOOLEAN :
        LET h == ginHandleHeartbeat(store, body, TTL, okGet, okSet)
        IN  /\ store' = h.store
            /\ ret' = [NoRet EXCEPT !.op = "ginHandleHeartbeat", !.err = h.err,
                                    !.resp = h.resp, !.calls = h.calls, !.body = body]
            /\ UNCHANGED <<px, tr, sd, clock, TTL, skew, hb, sweep>>

\* The options are chosen and New has not been called.
InitConstruct ==
    /\ clock = 0
    /\ \E cfg \in Configs : TTL = cfg.TTL /\ skew = cfg.skew
    /\ store = << >>
    /\ hb = Idle
    /\ sweep = Idle
    /\ ret = NoRet
    /\ tr = NewTransports
    /\ sd = NoProxy
    /\ \E o \in Options : px = NotCalled(o)

\* New is called with the options.
CallNew ==
    /\ px.state = "options"
    /\ \E ok \in BOOLEAN :
        LET n == New(px.opts, store, TTL, ok)
        IN  /\ px' = n.px
            /\ sd' = n.sd
            /\ store' = n.store
            /\ ret' = [NoRet EXCEPT !.op = "New", !.err = n.px.err]
    /\ UNCHANGED <<clock, TTL, skew, hb, sweep, tr>>

\* A task's select takes p.ctx.Done(): the task returns.
TaskExit(k) ==
    /\ sd.task[k] = "select"
    /\ sd.ctx = "cancelled"
    /\ sd' = [sd EXCEPT !.task[k] = "exited"]
    /\ ret' = [NoRet EXCEPT !.op = "task.exit"]
    /\ UNCHANGED <<px, clock, TTL, skew, store, hb, sweep, tr>>

\* Shutdown is called: the tasks' context is cancelled.
CallShutdown ==
    /\ sd.call = "none"
    /\ sd' = ShutdownCancel(sd)
    /\ ret' = [NoRet EXCEPT !.op = "Shutdown.cancel"]
    /\ UNCHANGED <<px, clock, TTL, skew, store, hb, sweep, tr>>

\* Shutdown or Close is called again after a Shutdown that has returned.
CallShutdownAgain ==
    /\ sd.call = "returned"
    /\ sd.again + 1 < MaxShutdowns
    /\ sd' = ShutdownAgain(sd)
    /\ ret' = [NoRet EXCEPT !.op = "Shutdown.cancel"]
    /\ UNCHANGED <<px, clock, TTL, skew, store, hb, sweep, tr>>

\* Shutdown deletes the self route with the caller's context.
ShutdownDelete ==
    /\ sd.call = "delete"
    /\ \E ok \in BOOLEAN :
        LET d == Delete(store, SelfColor, ok /\ ~sd.deadline)
        IN  /\ store' = d.store
            /\ sd' = ShutdownDeleteSelf(sd, d.err)
            /\ ret' = [NoRet EXCEPT !.op = "Shutdown.Delete", !.color = SelfColor,
                                    !.err = d.err, !.prior = PriorToken(store, SelfColor)]
    /\ UNCHANGED <<px, clock, TTL, skew, hb, sweep, tr>>

\* The caller's deadline passes.
DeadlineExpires ==
    /\ sd.call \notin {"nil", "none", "returned"}
    /\ ~sd.deadline
    /\ sd' = [sd EXCEPT !.deadline = TRUE]
    /\ ret' = [NoRet EXCEPT !.op = "deadline"]
    /\ UNCHANGED <<px, clock, TTL, skew, store, hb, sweep, tr>>

\* The goroutine Shutdown started: wg.Wait returns, done is closed.
WaiterDone ==
    /\ sd.waiter = "waiting"
    /\ TasksExited(sd)
    /\ sd' = [sd EXCEPT !.waiter = "done"]
    /\ ret' = [NoRet EXCEPT !.op = "waiter.done"]
    /\ UNCHANGED <<px, clock, TTL, skew, store, hb, sweep, tr>>

\* Shutdown's select, on a case that is ready.
ShutdownWait ==
    /\ sd.call = "wait"
    /\ \E case \in {"ctx.Done", "done"} :
        /\ case = "ctx.Done" => sd.deadline
        /\ case = "done" => sd.waiter = "done"
        /\ sd' = ShutdownSelect(sd, case)
    /\ ret' = [NoRet EXCEPT !.op = "Shutdown.select", !.err = sd'.result]
    /\ UNCHANGED <<px, clock, TTL, skew, store, hb, sweep, tr>>

\* Shutdown closes the transport.
ShutdownTransport ==
    /\ sd.call = "closeTransport"
    /\ \E err \in {Nil, ErrClose} :
        /\ sd' = ShutdownCloseTransport(sd, err)
        /\ tr' = IF err = Nil THEN TransportClose(tr) ELSE tr
        /\ ret' = [NoRet EXCEPT !.op = "Shutdown.closeTransport", !.swallowed = err]
    /\ UNCHANGED <<px, clock, TTL, skew, store, hb, sweep>>

\* Shutdown closes the backend and returns.
ShutdownBackend ==
    /\ sd.call = "closeBackend"
    /\ \E err \in {Nil, ErrClose} :
        /\ sd' = ShutdownCloseBackend(sd, err)
        /\ ret' = [NoRet EXCEPT !.op = "Shutdown.closeBackend", !.err = err]
    /\ UNCHANGED <<px, clock, TTL, skew, store, hb, sweep, tr>>

\* A request relayed by an HTTP transport to the target: the path sent upstream.
HTTPRelay(inbound) ==
    /\ tr' = [tr EXCEPT !.inbound = inbound,
                        !.upstream = IF tr.impl = "http.go"
                                     THEN Director(tr.targetPath, inbound)
                                     ELSE CachedDirector(tr.targetPath, inbound)]
    /\ ret' = [NoRet EXCEPT !.op = "HTTPTransport.Proxy"]
    /\ UNCHANGED <<px, clock, TTL, skew, store, hb, sweep, sd>>

\* An HTTP transport of either version, and a target with a base path.
InitPaths ==
    /\ clock = 0 /\ TTL = 0 /\ skew = 0 /\ store = << >>
    /\ hb = Idle /\ sweep = Idle /\ ret = NoRet /\ sd = NotConstructed /\ px = Built(FALSE)
    /\ \E impl \in {"http.go", "cached"} : \E base \in BasePaths :
        tr = [NewTransports EXCEPT !.impl = impl, !.targetPath = base]

\* A relay starts: the pool is asked for the target's handle.
GetConn(r, target) ==
    /\ tr.relay[r].pc = "idle"
    /\ tr.pool[target].id = 0 => tr.made + Dialing(tr) < MaxHandles
    /\ tr' = PoolLoad(tr, r, target)
    /\ ret' = [NoRet EXCEPT !.op = "Proxy.load"]
    /\ UNCHANGED <<px, clock, TTL, skew, store, hb, sweep, sd>>

\* A relay that missed makes its handle and stores it.
Dial(r) ==
    /\ tr.relay[r].pc = "dial"
    /\ \E ok \in (IF tr.kind = "grpc" THEN BOOLEAN ELSE {TRUE}) :
        /\ tr' = PoolStore(tr, r, ok)
        /\ ret' = [NoRet EXCEPT !.op = "Proxy.store",
                                !.err = IF ok THEN Nil ELSE "failed to get connection"]
    /\ UNCHANGED <<px, clock, TTL, skew, store, hb, sweep, sd>>

\* A relay uses its handle and returns.
Invoke(r) ==
    /\ tr.relay[r].pc = "use"
    /\ \E up \in BOOLEAN :
        LET u == PoolUse(tr, r, up)
        IN  /\ tr' = u.tr
            /\ ret' = [NoRet EXCEPT !.op = "Proxy.use", !.err = u.err]
    /\ UNCHANGED <<px, clock, TTL, skew, store, hb, sweep, sd>>

\* The idle sweep of the gRPC transport reads an entry's idle time.
CleanupCheck(target) ==
    /\ tr.kind = "grpc"
    /\ ~tr.done
    /\ tr.victim = NoVictim
    /\ SweepVictim(tr, target) # NoVictim
    /\ tr' = [tr EXCEPT !.victim = SweepVictim(tr, target)]
    /\ ret' = [NoRet EXCEPT !.op = "cleanup.check"]
    /\ UNCHANGED <<px, clock, TTL, skew, store, hb, sweep, sd>>

\* The idle sweep closes the connection it found idle and deletes the key.
CleanupEvict ==
    /\ tr.victim # NoVictim
    /\ tr' = SweepEvict(tr)
    /\ ret' = [NoRet EXCEPT !.op = "cleanup.evict"]
    /\ UNCHANGED <<px, clock, TTL, skew, store, hb, sweep, sd>>

\* The transport's Close.
CloseTransport ==
    /\ ~tr.done
    /\ tr' = TransportClose(tr)
    /\ ret' = [NoRet EXCEPT !.op = "Transport.Close"]
    /\ UNCHANGED <<px, clock, TTL, skew, store, hb, sweep, sd>>

\* A minute passes for the pooled handles.
Minute ==
    /\ tr' = Older(tr)
    /\ ret' = [NoRet EXCEPT !.op = "minute"]
    /\ UNCHANGED <<px, clock, TTL, skew, store, hb, sweep, sd>>

\* A pooled transport of either kind, new.
InitPool ==
    /\ clock = 0 /\ TTL = 0 /\ skew = 0 /\ store = << >>
    /\ hb = Idle /\ sweep = Idle /\ ret = NoRet /\ sd = NotConstructed /\ px = Built(FALSE)
    /\ \E kind \in {"grpc", "http"} : tr = [NewTransports EXCEPT !.kind = kind]

\* The state after construction, before any call.
Init ==
    /\ clock = 0
    /\ \E cfg \in Configs : TTL = cfg.TTL /\ skew = cfg.skew
    /\ store = << >>
    /\ hb = Idle
    /\ sweep = Idle
    /\ ret = NoRet
    /\ tr = NewTransports
    /\ sd = NotConstructed
    /\ px = Built(FALSE)

\* Registrations, reads, heartbeats and deletions, as concurrent callers issue them.
NextRegistry ==
    \/ \E color \in Colors : \E cred \in Creds : CallRegister(color, cred)
    \/ \E color \in Colors : CallGet(color)
    \/ \E color \in Colors : \E address \in Addresses : \E token \in Tokens :
            HeartbeatGet(color, address, token)
    \/ HeartbeatRegister
    \/ \E color \in Colors : CallDelete(color)
    \/ Tick

\* The expiry sweep and listings, among registrations, heartbeats and deletions.
NextSweep ==
    \/ \E color \in Colors : \E cred \in Creds : CallRegister(color, cred)
    \/ \E color \in Colors : \E address \in Addresses : \E token \in Tokens :
            HeartbeatGet(color, address, token)
    \/ HeartbeatRegister
    \/ \E color \in Colors : CallDelete(color)
    \/ CallList
    \/ \E keys \in KeyOrders(DOMAIN store) : \E failing \in SUBSET (DOMAIN store) :
            DeleteExpiredList(keys, failing)
    \/ DeleteExpiredListFails
    \/ DeleteExpiredDelete
    \/ Tick

\* Inbound requests, among registrations and deletions.
NextDispatch ==
    \/ \E color \in Colors : \E cred \in Creds : CallRegister(color, cred)
    \/ \E color \in Colors : CallDelete(color)
    \/ \E header \in Colors \cup {<< >>} : ginProxyMiddleware(header)
    \/ Tick

\* Registrations and the sweep, each call from start to end.
NextSweepAlone ==
    \/ \E color \in SweepColors : \E cred \in Creds : CallRegister(color, cred)
    \/ CallDeleteExpired
    \/ Tick

\* The administrative endpoints, among deletions.
NextAdmin ==
    \/ \E body \in Bodies : PostRegister(body)
    \/ \E body \in Bodies : PostHeartbeat(body)
    \/ \E color \in Colors : CallDelete(color)
    \/ Tick

\* Requests relayed by an HTTP transport.
NextPaths == \E inbound \in InboundPaths : HTTPRelay(inbound)

\* Concurrent relays through a pooled transport, its idle sweep and its Close.
NextPool ==
    \/ \E r \in Relays : \E target \in Targets : GetConn(r, target)
    \/ \E r \in Relays : Dial(r)
    \/ \E r \in Relays : Invoke(r)
    \/ \E target \in Targets : CleanupCheck(target)
    \/ CleanupEvict
    \/ CloseTransport
    \/ Minute

\* The background tasks and a Shutdown call.
NextTasks ==
    \/ \E k \in {"sweep", "heartbeat"} : TickerFires(k)
    \/ SweepTaskTick
    \/ SweepTaskDone
    \/ SelfHeartbeatGet
    \/ SelfHeartbeatSend
    \/ SelfHeartbeatApply
    \/ \E k \in {"sweep", "heartbeat"} : TaskExit(k)
    \/ CallShutdown
    \/ ShutdownDelete
    \/ DeadlineExpires
    \/ WaiterDone
    \/ ShutdownWait
    \/ ShutdownTransport
    \/ ShutdownBackend

\* The same while the clock advances.
NextLifecycle == NextTasks \/ Tick

\* The background tasks and Shutdown calls, one after another has returned.
NextShutdowns == NextTasks \/ CallShutdownAgain

\* New, and what the proxy it returns does.
NextConstruct == CallNew \/ NextTasks

Next ==
    \/ NextRegistry \/ NextSweep \/ NextDispatch \/ NextPaths \/ NextPool \/ NextLifecycle
    \/ NextConstruct \/ NextShutdowns \/ NextAdmin \/ NextSweepAlone

SpecRegistry == Init /\ [][NextRegistry]_vars
SpecSweep == Init /\ [][NextSweep]_vars
SpecDispatch == Init /\ [][NextDispatch]_vars
SpecPaths == InitPaths /\ [][NextPaths]_vars
SpecPool == InitPool /\ [][NextPool]_vars
SpecLifecycle == InitLifecycle /\ [][NextLifecycle]_vars
SpecSweepAlone == Init /\ [][NextSweepAlone]_vars
SpecAdmin == Init /\ [][NextAdmin]_vars
SpecConstruct == InitConstruct /\ [][NextConstruct]_vars
SpecShutdowns == InitLifecycle /\ [][NextShutdowns]_vars
Spec == Init /\ [][Next]_vars

\* The timers fire, the steps of a relay, of the idle sweep and of a task follow one
\* another, and a select with a ready case takes it.
FairSpecPool ==
    /\ SpecPool
    /\ WF_vars(Minute)
    /\ WF_vars(\E target \in Targets : CleanupCheck(target))
    /\ WF_vars(CleanupEvict)
    /\ WF_vars(\E r \in Relays : Dial(r))
    /\ WF_vars(\E r \in Relays : Invoke(r))

FairSpecLifecycle ==
    /\ InitLifecycle /\ [][NextTasks]_vars
    /\ \A k \in {"sweep", "heartbeat"} : WF_vars(TickerFires(k))
    /\ WF_vars(SweepTaskTick)
    /\ WF_vars(SelfHeartbeatGet)
    /\ WF_vars(SweepTaskDone)
    /\ WF_vars(SelfHeartbeatSend)
    /\ WF_vars(SelfHeartbeatApply)
    /\ \A k \in {"sweep", "heartbeat"} : SF_vars(TaskExit(k))
    /\ WF_vars(WaiterDone)

-----------------------------------------------------------------------------
\* The route stored under a color's key, as Get decodes it.
Stored(s, color) == Unmarshal(s[Key(color)].val)

HasRoute(s, color) == Key(color) \in DOMAIN s

\* Every key but color's is the same in s and t.
OthersUnchanged(s, t, color) ==
    /\ DOMAIN t \ {Key(color)} = DOMAIN s \ {Key(color)}
    /\ \A k \in DOMAIN s \ {Key(color)} : t[k] = s[k]

-----------------------------------------------------------------------------
\* C1: a Get made right after a successful Register returns the address, owner and
\* token that were registered, and an ExpiresAt of the clock at the Register plus
\* the ttl.
C1_GetAfterRegister ==
    (ret.op = "Register" /\ ret.err = Nil) =>
        LET g == Get(store, ret.color, TRUE)
        IN  /\ g.err = Nil
            /\ g.route.Address = ret.route.Address
            /\ g.route.Owner = ret.route.Owner
            /\ g.route.Token = ret.route.Token
            /\ g.route.ExpiresAt = clock + TTL

\* C2: a Heartbeat for a stored route whose address or token differs from the
\* stored values returns the mismatch error, goes on to no Register, and leaves the
\* store, and so the route's ExpiresAt and the key's expiry, as they were.
C2_MismatchRejected ==
    [][\A color \in Colors : \A address \in Addresses : \A token \in Tokens :
        ( /\ ret'.op = "Heartbeat.Get" /\ ret'.err # ErrStore
          /\ HasRoute(store, color)
          /\ \/ Stored(store, color).Address # address
             \/ Stored(store, color).Token # token
          /\ HeartbeatGet(color, address, token) )
        => ( /\ ret'.err = ErrMismatch
             /\ ret'.done
             /\ hb' = Idle
             /\ store' = store )]_vars

C2_Witness ==
    /\ ret.op = "Heartbeat.Get"
    /\ ret.err = ErrMismatch
    /\ HasRoute(store, ret.color)

\* C3: a Heartbeat for a color with no stored route returns the not-found error,
\* which is not the mismatch error, goes on to no Register, and the color still has
\* no route afterwards.
C3_AbsentNotFound ==
    [][\A color \in Colors : \A address \in Addresses : \A token \in Tokens :
        ( /\ ret'.op = "Heartbeat.Get" /\ ret'.err # ErrStore
          /\ ~HasRoute(store, color)
          /\ HeartbeatGet(color, address, token) )
        => ( /\ ret'.err = ErrNotFound
             /\ ret'.err # ErrMismatch
             /\ ret'.done
             /\ hb' = Idle
             /\ store' = store
             /\ ~HasRoute(store', color) )]_vars

C3_Witness ==
    /\ ret.op = "Heartbeat.Get"
    /\ ret.err = ErrNotFound
    /\ ~HasRoute(store, ret.color)
    /\ hb = Idle

AbsentUntilRegistered ==
    \A color \in Colors :
        (~HasRoute(store, color) /\ HasRoute(store', color))
        => (ret'.op \in {"Register", "Heartbeat.Register"} /\ ret'.color = color)

InSeq(x, seq) == \E i \in DOMAIN seq : seq[i] = x

C7_StoreNeverDrops ==
    [][\A color \in Colors :
        ( /\ HasRoute(store, color)
          /\ ~HasRoute(store', color) \/ store'[Key(color)] # store[Key(color)] )
        => ( /\ ret'.color = color
             /\ ret'.op \in {"Delete", "DeleteExpired.Delete", "Register",
                              "Heartbeat.Register"} )]_vars

\* C7 as amended: Get returns the stored route as it is stored, an expired one too,
\* for as long as the store holds the key; a stored route goes or changes only by a
\* Delete or a Register for its color, or by the store dropping the key once the
\* expiry it was written with has passed.
C7_GetVerbatimUntilStoreExpiry ==
    [][ /\ \A color \in Colors :
            ( /\ ret'.op = "Get" /\ ret'.err # ErrStore
              /\ HasRoute(store, color)
              /\ CallGet(color) )
            => (ret'.err = Nil /\ ret'.route = Stored(store, color))
        /\ \A color \in Colors :
            ( /\ HasRoute(store, color)
              /\ ~HasRoute(store', color) \/ store'[Key(color)] # store[Key(color)] )
            => ( \/ /\ ret'.color = color
                    /\ ret'.op \in {"Delete", "DeleteExpired.Delete", "Register",
                                     "Heartbeat.Register"}
                 \/ /\ ret'.op = "Tick"
                    /\ store[Key(color)].exp # NoExpiry
                    /\ clock' > store[Key(color)].exp
                    /\ ~HasRoute(store', color) ) ]_vars

C7_Witness ==
    /\ ret.op = "Get"
    /\ ret.err = Nil
    /\ HasRoute(store, ret.color)
    /\ Expired(ret.route, clock)

\* C8: a Delete whose Redis command succeeds returns no error and is answered 200
\* whether or not the color had a route; the color then has no route, a Get for it
\* returns not found, no other key changes, and the color stays without a route
\* until a Register for it.
C8_DeleteUnconditional ==
    [][ /\ \A color \in Colors :
            ( /\ ret'.op = "Delete" /\ ret'.err # ErrStore
              /\ CallDelete(color) )
            => ( /\ ret'.err = Nil
                 /\ ret'.resp.status = 200
                 /\ ~HasRoute(store', color)
                 /\ Get(store', color, TRUE).err = ErrNotFound
                 /\ OthersUnchanged(store, store', color) )
        /\ AbsentUntilRegistered ]_vars

C8_Witness ==
    /\ ret.op = "Delete"
    /\ ret.err = Nil
    /\ ret.prior = << >>
    /\ ret.resp.status = 200
    /\ ~HasRoute(store, ret.color)

\* C9: a request without the color header goes to the next handler: no Select, no
\* Proxy, and the response is the handler's, whatever routes are stored.
C9_NoHeaderPassesThrough ==
    (ret.op = "ginProxyMiddleware" /\ ret.color = << >>) =>
        ( /\ ret.next
          /\ ret.selects = 0
          /\ ret.proxies = 0
          /\ ret.resp = HandlerResponse )

C9_Witness ==
    /\ ret.op = "ginProxyMiddleware"
    /\ ret.color = << >>
    /\ ret.next
    /\ DOMAIN store # {}

\* A route is live while the clock has not passed its ExpiresAt.
HasLiveRoute(s, color, now) == HasRoute(s, color) /\ ~Expired(Stored(s, color), now)

\* C10 as claimed: a request whose color has no live route goes to the next
\* handler, is not forwarded and is not answered 502.
C10_NoLiveRoutePassesThrough ==
    ( /\ ret.op = "ginProxyMiddleware"
      /\ ret.color # << >>
      /\ ~HasLiveRoute(store, ret.color, clock) )
    => ( /\ ret.next
         /\ ret.proxies = 0
         /\ ret.resp = HandlerResponse )

\* C10 as amended: a request whose color has no stored route, or whose Select
\* fails, goes to the next handler, is not forwarded and is not answered 502.
C10_NoStoredRoutePassesThrough ==
    ( /\ ret.op = "ginProxyMiddleware"
      /\ ret.color # << >>
      /\ ~HasRoute(store, ret.color) \/ ret.err # Nil )
    => ( /\ ret.next
         /\ ret.selects = 1
         /\ ret.proxies = 0
         /\ ret.resp = HandlerResponse )

C10_Witness ==
    /\ ret.op = "ginProxyMiddleware"
    /\ ret.color # << >>
    /\ ret.err = ErrNotFound
    /\ ret.next
    /\ DOMAIN store # {}

\* C11: a request whose color resolves to an address is relayed by one call of
\* the transport's Proxy, after one Select, and the next handler is not run, whether
\* the backend answers or not.
C11_RelayedOnce ==
    ( /\ ret.op = "ginProxyMiddleware"
      /\ ret.color # << >>
      /\ ret.err = Nil )
    => ( /\ ret.selects = 1
         /\ ret.proxies = 1
         /\ ~ret.next )

C11_Witness ==
    /\ ret.op = "ginProxyMiddleware"
    /\ ret.color # << >>
    /\ ret.err = Nil
    /\ ~ret.up
    /\ ret.proxies = 1
    /\ ~ret.next

\* C12: a request relayed to a backend that does not answer is answered 502 with
\* an error body; it is not passed to the next handler and not answered 200.
C12_GatewayFailure ==
    ( /\ ret.op = "ginProxyMiddleware"
      /\ ret.proxies > 0
      /\ ~ret.up )
    => ( /\ ret.resp.status = 502
         /\ ret.resp.body # ""
         /\ ret.resp # HandlerResponse
         /\ ~ret.next )

C12_Witness ==
    /\ ret.op = "ginProxyMiddleware"
    /\ HasRoute(store, ret.color)
    /\ ~ret.up
    /\ ret.resp.status = 502

\* C13: the path sent upstream is the target's base path, one slash, and the
\* inbound path: the base path without its trailing slashes, a slash, the inbound
\* path without its leading slashes.
C13_JoinedOnce ==
    tr.upstream # NoPath =>
        LET a == tr.targetPath
            b == tr.inbound
            last == IF \E i \in DOMAIN a : a[i] # "/"
                    THEN CHOOSE i \in DOMAIN a :
                            a[i] # "/" /\ \A j \in DOMAIN a : j > i => a[j] = "/"
                    ELSE 0
            first == IF \E i \in DOMAIN b : b[i] # "/"
                     THEN CHOOSE i \in DOMAIN b :
                            b[i] # "/" /\ \A j \in DOMAIN b : j < i => b[j] = "/"
                     ELSE Len(b) + 1
        IN  tr.upstream = SubSeq(a, 1, last) \o <<"/">> \o SubSeq(b, first, Len(b))

\* C14: a handle for a target is made only while the pool holds none for it.
C14_OneHandlePerTarget ==
    [][\A t \in Targets :
        (tr'.made > tr.made /\ tr'.pool[t].id = tr'.made) => tr.pool[t].id = 0]_vars

\* C15: a pooled handle unused for longer than the idle threshold is in time out of
\* the pool (or used again).
C15_IdleHandleEvicted ==
    \A t \in Targets :
        (tr.pool[t].id # 0 /\ tr.pool[t].idle > IdleThreshold)
        ~> (tr.pool[t].id = 0 \/ tr.pool[t].idle <= IdleThreshold)

\* C16: a relay that starts after Close obtains no handle: it neither takes one
\* from the pool nor makes one.
C16_RelayAfterCloseFails ==
    \A r \in Relays : tr.relay[r].afterClose => tr.relay[r].conn = 0

\* C17: when auto-registration is on and Shutdown's Delete of the self route
\* succeeded, a Shutdown that has returned nil leaves no route under the self color.
C17_ShutdownDeregisters ==
    ( /\ sd.call = "returned"
      /\ sd.result = Nil
      /\ sd.auto
      /\ sd.deleteErr = Nil )
    => ~HasRoute(store, SelfColor)

\* C18: a Shutdown whose select runs with the deadline passed and the tasks not
\* finished returns the deadline error; returning it changes no task, does not end
\* the waiting goroutine and closes nothing; and the waiting goroutine does end
\* once the tasks have exited.
C18_TimeoutLeavesTasks ==
    /\ [][ /\ (ret'.op = "Shutdown.select" /\ sd.deadline /\ sd.waiter # "done")
                => sd'.result = ErrDeadline
           /\ (ret'.op = "Shutdown.select" /\ sd'.result = ErrDeadline)
                => ( /\ sd.deadline
                     /\ sd'.call = "returned"
                     /\ sd'.task = sd.task
                     /\ sd'.waiter = sd.waiter
                     /\ sd'.closes = sd.closes ) ]_vars
    /\ (sd.result = ErrDeadline) ~> (sd.waiter = "done")

C18_Witness ==
    /\ sd.call = "returned"
    /\ sd.result = ErrDeadline
    /\ sd.waiter = "waiting"
    /\ \E k \in DOMAIN sd.task : sd.task[k] = "tick"

\* C19: a Shutdown that has returned has closed the transport and then the backend,
\* and nothing is closed while a task has not exited.
C19_ClosesInOrder ==
    /\ sd.call = "returned" => sd.closes = <<"transport", "backend">>
    /\ sd.closes # << >> => TasksExited(sd)

\* C20: Shutdown goes on after a failed Delete of the self route and after a failed
\* Close of the transport; the backend's Close is its last step and its error is
\* what Shutdown returns; a Shutdown that returned anything but the deadline error
\* has closed the transport and then the backend.
C20_FailuresLoggedOnly ==
    /\ []( (sd.call = "returned" /\ sd.result # ErrDeadline)
            => sd.closes = <<"transport", "backend">> )
    /\ [][ /\ (ret'.op = "Shutdown.Delete" /\ ret'.err # Nil)
                => (sd'.call = "wait" /\ sd'.result = "none" /\ sd'.deleteErr = ret'.err)
           /\ (ret'.op = "Shutdown.closeTransport" /\ ret'.swallowed # Nil)
                => ( /\ sd'.call = "closeBackend"
                     /\ sd'.result = "none"
                     /\ sd'.transportErr = ret'.swallowed )
           /\ ret'.op = "Shutdown.closeBackend"
                => ( /\ sd'.call = "returned"
                     /\ sd'.result = ret'.err
                     /\ sd'.closes = Append(sd.closes, "backend") ) ]_vars

C20_Witness ==
    /\ sd.call = "returned"
    /\ sd.deleteErr # Nil
    /\ sd.transportErr # Nil
    /\ sd.result = ErrClose
    /\ sd.closes = <<"transport", "backend">>

\* C21: once the tasks' context is cancelled every task ends, and a task that takes
\* a tick of its ticker after the cancellation (a new sweep or a new heartbeat)
\* does so no later than one period of that ticker after it.
C21_TasksStopWithinOneTick ==
    /\ [][ /\ (ret'.op = "sweep.tick" /\ sd.ctx = "cancelled") => sd.since.sweep <= 1
           /\ (ret'.op = "heartbeatSelf.Get" /\ sd.ctx = "cancelled")
                => sd.since.heartbeat <= 1 ]_vars
    /\ (sd.ctx = "cancelled") ~> TasksExited(sd)

\* C22: while the context is live, a tick that failed (DeleteExpired, or the
\* self-heartbeat's Get or Register) leaves its task in the loop's select; the
\* task's ticker then delivers another tick, and a delivered tick is taken, which
\* starts the operation again.
C22_FailedTickKeepsLoop ==
    /\ [][ /\ (ret'.op = "sweep.done" /\ ret'.err # Nil /\ sd.ctx = "live")
                => sd'.task.sweep = "select"
           /\ (ret'.op \in {"heartbeatSelf.Get", "heartbeatSelf.Send"}
                    /\ ret'.err # Nil /\ sd.ctx = "live")
                => sd'.task.heartbeat = "select" ]_vars
    /\ (ret.op = "sweep.done" /\ ret.err # Nil /\ sd.ctx = "live")
            ~> (sd.ticker.sweep \/ sd.ctx = "cancelled")
    /\ (ret.op \in {"heartbeatSelf.Get", "heartbeatSelf.Send"} /\ ret.err # Nil
                /\ sd.ctx = "live")
            ~> (sd.ticker.heartbeat \/ sd.ctx = "cancelled")
    /\ \A k \in {"sweep", "heartbeat"} :
            (sd.task[k] = "select" /\ sd.ticker[k] /\ sd.ctx = "live")
                ~> (~sd.ticker[k] \/ sd.ctx = "cancelled")

C22_Witness ==
    /\ ret.op = "sweep.done"
    /\ ret.err = ErrStore
    /\ sd.ctx = "live"
    /\ sd.task.sweep = "select"

\* C23: New without a Backend returns ErrBackendRequired and no proxy, leaves the
\* store as it was, and from then on no task runs and nothing is registered; New
\* with a Backend returns a proxy, with the default Transport and Strategy where
\* none was given and the given one otherwise.
C23_BackendRequired ==
    /\ [](px.err = ErrBackendRequired => (sd = NoProxy /\ store = << >>))
    /\ [][ret'.op = "New" =>
            IF ~px.opts.Backend
            THEN /\ px'.err = ErrBackendRequired
                 /\ sd' = NoProxy
                 /\ store' = store
                 /\ px'.transport = "none" /\ px'.strategy = "none"
            ELSE /\ px'.err = Nil
                 /\ sd'.task.sweep = "select"
                 /\ px'.transport = (IF px.opts.Transport = "none" THEN "HTTPTransport"
                                     ELSE px.opts.Transport)
                 /\ px'.strategy = (IF px.opts.Strategy = "none" THEN "SimpleStrategy"
                                    ELSE px.opts.Strategy)]_vars

C23_Witness ==
    /\ px.state = "returned"
    /\ px.err = ErrBackendRequired
    /\ px.opts.AutoRegister
    /\ px.opts.Transport = "none"

\* C24: a cancelled context stays cancelled and a Shutdown that has been called
\* stays called; and once a Shutdown has closed the transport and the backend, a
\* later Shutdown or Close deletes no self route, closes nothing more and, its
\* caller's deadline not having passed, returns nil.
C24_ShutdownOnce ==
    [][ /\ sd.ctx = "cancelled" => sd'.ctx = "cancelled"
        /\ sd.call # "none" => sd'.call # "none"
        /\ (sd.again > 0 /\ Len(sd.closes) >= 2)
            => ( /\ ret'.op # "Shutdown.Delete"
                 /\ sd'.closes = sd.closes
                 /\ (sd'.call = "returned" /\ ~sd.deadline) => sd'.result = Nil ) ]_vars

\* A body that is not JSON, or lacks one of the fields tagged as required.
IncompleteBody(body) ==
    \/ body = Malformed
    \/ \E f \in {"Color", "Address", "Token"} : body[f] = << >>

\* C25: POST /register and POST /heartbeat answer 400 to a body that is not JSON
\* or lacks color, address or token, without a call to the backend and with the
\* store as it was; they answer 500 when the backend call fails, and 200 exactly
\* when the body is complete and the backend call succeeded.
C25_AdminStatus ==
    [][ret'.op \in {"ginHandleRegister", "ginHandleHeartbeat"} =>
        /\ IncompleteBody(ret'.body)
            => (ret'.resp.status = 400 /\ ret'.calls = 0 /\ store' = store)
        /\ (~IncompleteBody(ret'.body) /\ ret'.err # Nil)
            => (ret'.resp.status = 500 /\ ret'.calls > 0)
        /\ ret'.resp.status = 200
            <=> (~IncompleteBody(ret'.body) /\ ret'.err = Nil /\ ret'.calls > 0)
        /\ ret'.resp.status \in {200, 400, 500}]_vars

C25_Witness ==
    /\ ret.op = "ginHandleRegister"
    /\ ret.body # Malformed
    /\ ret.body.Color # << >>
    /\ ret.body.Address # << >>
    /\ ret.body.Token = << >>
    /\ ret.resp.status = 400
    /\ store # << >>

\* C26: a DeleteExpired that runs alone returns the store's error, with the store
\* as it was, only when its List failed; otherwise it returns nil, whatever Delete
\* failed, and it has removed the stored routes whose ExpiresAt is before the clock
\* (but for those whose read or Delete failed) and left every other key as it was.
C26_SweepAloneExact ==
    [][ret'.op = "DeleteExpired" =>
        /\ ret'.err = (IF ret'.done THEN Nil ELSE ErrStore)
        /\ ret'.err # Nil => store' = store
        /\ ret'.err = Nil =>
            /\ DOMAIN store' \subseteq DOMAIN store
            /\ \A k \in DOMAIN store :
                IF store[k].val.ExpiresAt < clock /\ k \notin ret'.failed
                THEN k \notin DOMAIN store'
                ELSE k \in DOMAIN store' /\ store'[k] = store[k]]_vars

\* C27: for a request with a color, Select makes one Get and the request is
\* forwarded, to the Address of the stored route, whenever the Get returned a route:
\* that the route's ExpiresAt has passed makes no difference.
C27_StaleRouteResolves ==
    ( /\ ret.op = "ginProxyMiddleware"
      /\ ret.color # << >> )
    => ( /\ ret.selects = 1
         /\ ret.gets = 1
         /\ (HasRoute(store, ret.color) /\ ret.err # ErrStore)
                => ( /\ ret.err = Nil
                     /\ ret.proxies = 1
                     /\ ret.target = Stored(store, ret.color).Address )
         /\ ret.err = Nil => HasRoute(store, ret.color) )

C27_Witness ==
    /\ ret.op = "ginProxyMiddleware"
    /\ ret.color # << >>
    /\ HasRoute(store, ret.color)
    /\ Stored(store, ret.color).ExpiresAt < clock
    /\ ret.proxies = 1
    /\ ret.target = Stored(store, ret.color).Address
    /\ ~ret.next

\* C28: when a Heartbeat writes, the store holds under the color the route the
\* Heartbeat read, with the address and token it compared: its write neither
\* replaces a route registered since nor brings back a route deleted since.
C28_HeartbeatWritesValidated ==
    [][(ret'.op = "Heartbeat.Register" /\ ret'.err = Nil) =>
        /\ HasRoute(store, hb.route.Color)
        /\ Stored(store, hb.route.Color).Address = hb.route.Address
        /\ Stored(store, hb.route.Color).Token = hb.route.Token]_vars

\* C29: a Delete issued by DeleteExpired that succeeds removes no route whose
\* ExpiresAt has not passed at that moment.
C29_SweepSparesRefreshed ==
    [][(ret'.op = "DeleteExpired.Delete" /\ ret'.swallowed = Nil
            /\ HasRoute(store, ret'.color))
        => Stored(store, ret'.color).ExpiresAt < clock]_vars

\* C30: while the transport is open, the connection a relay of the gRPC transport
\* holds for its Invoke is not one that has been closed.
C30_BorrowedNotClosed ==
    \A r \in Relays :
        (tr.kind = "grpc" /\ ~tr.done /\ tr.relay[r].pc = "use")
            => tr.relay[r].conn \notin tr.closed

====
